---- MODULE Spec2Model ----
(***************************************************************************)
(* A model of the vecs entity-component store: the packed entity handle,   *)
(* the EntityManager (version table, live list, FIFO recycle queue), the   *)
(* SparseSet, the Pool with its last-access cache, the View join and the   *)
(* ECS facade.                                                             *)
(*                                                                         *)
(* An Entity is one 32-bit word: the low 30 bits are the id, the top two   *)
(* bits the version.  The word is modelled by the pair it decodes to,      *)
(* [id, version]; the pairs and the words are in bijection, so equality of *)
(* pairs is equality of words.                                             *)
(***************************************************************************)
EXTENDS Integers, Sequences, FiniteSets, TLC

\* ------------------------------------------------------------- constants
idMask == 1073741823
versionMask == 3
pageSize == 4096

\* ---------------------------------------------------------------- bounds
\* ids the standalone EntityManager may take from the high-water mark
MaxIds == 1
\* length the recycle queue may reach
MaxQueue == 2
\* the same, where one id is destroyed a full version cycle without being reissued
LongQueue == 4
\* length the live-entity list may reach
MaxLive == 2
\* ids the ECS facade may take from the high-water mark
MaxEntities == 2
\* facade calls in one run
MaxSteps == 5
\* facade calls in one run of create / add / remove / destroy / each
ViewSteps == 6
\* facade calls in one run of the calls and views that read and write components
VisitSteps == 7
\* ids of the handles given to the SparseSet driven directly
MaxSetIds == 1
\* length the dense list of the SparseSet driven directly may reach
MaxDense == 3
\* the same two, where a relocation meets a stale entry of a third id
WideSetIds == 2
WideDense == 4
\* ids the standalone EntityManager may take from the high-water mark, and the
\* lengths of its live list and recycle queue, where the version table has
\* grown past the high-water mark
HighIds == 4
HighLive == 5
HighQueue == 2

\* the component types in use, and the values a component may hold
Types == {"Position", "Velocity"}
Values == {"a", "b"}
\* the versions of the handles given to the SparseSet driven directly
SetVersions == {0, 1}

VARIABLES
    em,         \* the EntityManager: recycledIds, versions, validEntities, nextId
    pools,      \* ECS::pools: the Pool of each component type
    made,       \* the component types ECS::pools has a Pool for
    ret,        \* what the last call did and returned
    steps,      \* facade calls made so far
    watch,      \* history: one handle create returned, and what has happened to it
    sset        \* a SparseSet driven directly, outside any pool

vars == <<em, pools, made, ret, steps, watch, sset>>

\* ---------------------------------------------------------------- Entity
Max(a, b) == IF a >= b THEN a ELSE b
Min(a, b) == IF a <= b THEN a ELSE b

\* Entity(id, version): version << 30 | id & idMask, in 32 bits
EntityOf(id, version) ==
    [id |-> id % (idMask + 1), version |-> version % (versionMask + 1)]

\* Entity(raw): the word itself (raw < 2^31 here)
EntityRaw(raw) ==
    [id |-> raw % (idMask + 1), version |-> (raw \div (idMask + 1)) % (versionMask + 1)]

\* Entity::null(): all 32 bits set
Null == [id |-> idMask, version |-> versionMask]

getId(e) == e.id
getVersion(e) == e.version

\* ---------------------------------------------------------- EntityManager
EMInit == [recycledIds |-> <<>>, versions |-> <<>>, validEntities |-> <<>>, nextId |-> 0]

\* versions.resize(n, 0): keeps the entries it has, zero-fills the rest
Resize(vs, n) == [i \in 1..n |-> IF i <= Len(vs) THEN vs[i] ELSE 0]

\* versions[id] (a std::vector is indexed from 0)
VersionAt(m, id) == m.versions[id + 1]

\* Faulty variant of create(): the entity is composed with version 0 instead
\* of the slot's current version.
EMCreateStaleVersion(m) ==
    IF m.recycledIds # <<>>
    THEN LET id == Head(m.recycledIds)
             e  == EntityOf(id, 0)
         IN [em |-> [m EXCEPT !.recycledIds = Tail(@),
                              !.validEntities = Append(@, e)],
             entity |-> e]
    ELSE LET id == m.nextId
             vs == IF id >= Len(m.versions)
                   THEN Resize(m.versions, Max(id + 1, Len(m.versions) * 2))
                   ELSE m.versions
             e  == EntityOf(id, 0)
         IN [em |-> [m EXCEPT !.nextId = id + 1,
                              !.versions = vs,
                              !.validEntities = Append(@, e)],
             entity |-> e]

\* create(): the manager after the call and the entity returned
EMCreate(m) ==
    IF m.recycledIds # <<>>
    THEN LET id == Head(m.recycledIds)
             e  == EntityOf(id, VersionAt(m, id))
         IN [em |-> [m EXCEPT !.recycledIds = Tail(@),
                              !.validEntities = Append(@, e)],
             entity |-> e]
    ELSE LET id == m.nextId
             vs == IF id >= Len(m.versions)
                   THEN Resize(m.versions, Max(id + 1, Len(m.versions) * 2))
                   ELSE m.versions
             e  == EntityOf(id, vs[id + 1])
         IN [em |-> [m EXCEPT !.nextId = id + 1,
                              !.versions = vs,
                              !.validEntities = Append(@, e)],
             entity |-> e]

\* Faulty variant of isValid(): the id is reduced modulo the size of the
\* version table instead of being checked against it.
EMIsValidWrapsId(m, e) ==
    IF m.versions = <<>> THEN FALSE
    ELSE VersionAt(m, getId(e) % Len(m.versions)) = getVersion(e)

EMIsValid(m, e) ==
    IF getId(e) >= Len(m.versions) THEN FALSE
    ELSE VersionAt(m, getId(e)) = getVersion(e)

\* std::ranges::find: the first position holding e, 0 when there is none
FindFirst(s, e) ==
    IF \E i \in 1..Len(s) : s[i] = e
    THEN CHOOSE i \in 1..Len(s) : s[i] = e /\ \A j \in 1..(i - 1) : s[j] # e
    ELSE 0

\* *it = back(); pop_back()
SwapRemoveAt(s, i) ==
    LET moved == [s EXCEPT ![i] = s[Len(s)]]
    IN SubSeq(moved, 1, Len(s) - 1)

\* the check destroy() makes before it changes anything
EMDestroyPasses(m, e) ==
    ~(getId(e) >= Len(m.versions) \/ VersionAt(m, getId(e)) # getVersion(e))

\* Faulty variant of destroy(): the version is advanced by two.
EMDestroySkipsVersion(m, e) ==
    IF ~EMDestroyPasses(m, e) THEN m
    ELSE LET id == getId(e)
             at == FindFirst(m.validEntities, e)
             live == IF at # 0 THEN SwapRemoveAt(m.validEntities, at)
                     ELSE m.validEntities
         IN [m EXCEPT !.validEntities = live,
                      !.versions[id + 1] = (@ + 2) % (versionMask + 1),
                      !.recycledIds = Append(@, id)]

\* Faulty variant of destroy(): only the id is checked against the version
\* table, the version is not compared.
EMDestroyChecksIdOnly(m, e) ==
    IF getId(e) >= Len(m.versions) THEN m
    ELSE LET id == getId(e)
             at == FindFirst(m.validEntities, e)
             live == IF at # 0 THEN SwapRemoveAt(m.validEntities, at)
                     ELSE m.validEntities
         IN [m EXCEPT !.validEntities = live,
                      !.versions[id + 1] = (@ + 1) % (versionMask + 1),
                      !.recycledIds = Append(@, id)]

EMDestroy(m, e) ==
    IF ~EMDestroyPasses(m, e) THEN m
    ELSE LET id == getId(e)
             at == FindFirst(m.validEntities, e)
             live == IF at # 0 THEN SwapRemoveAt(m.validEntities, at)
                     ELSE m.validEntities
         IN [m EXCEPT !.validEntities = live,
                      !.versions[id + 1] = (@ + 1) % (versionMask + 1),
                      !.recycledIds = Append(@, id)]

\* Faulty variant of clear(): the version table is kept.
EMClearKeepsVersions(m) ==
    [recycledIds |-> <<>>, versions |-> m.versions, validEntities |-> <<>>, nextId |-> 0]

EMClear(m) == [recycledIds |-> <<>>, versions |-> <<>>, validEntities |-> <<>>, nextId |-> 0]

EMSize(m) == Len(m.validEntities)

\* -------------------------------------------------------------- SparseSet
\* sparse is a vector of Entity words that is null almost everywhere: it is
\* kept as its length (sparseSize) and the entries that are not null.
SSInit == [sparseSize |-> 0, sparse |-> <<>>, dense |-> <<>>, components |-> <<>>]

\* sparse[id], for id < sparse.size()
SparseAt(ss, id) == IF id \in DOMAIN ss.sparse THEN ss.sparse[id] ELSE Null

\* sparse[id] = word
SparsePut(sparse, id, word) ==
    IF word = Null
    THEN [i \in (DOMAIN sparse) \ {id} |-> sparse[i]]
    ELSE [i \in (DOMAIN sparse) \cup {id} |-> IF i = id THEN word ELSE sparse[i]]

\* size + pageSize - 1 & ~(pageSize - 1)
AlignUp(size) == ((size + pageSize - 1) \div pageSize) * pageSize

\* assureSpace(entity): grows sparse, null-filled, to a page multiple
SSAssureSpace(ss, e) ==
    IF getId(e) >= ss.sparseSize
    THEN LET required == getId(e) + 1
             size == required + (required \div 2)
         IN [ss EXCEPT !.sparseSize = AlignUp(size)]
    ELSE ss

\* Faulty variant of contains(): the dense entry is compared by id only.
SSContainsIgnoresVersion(ss, e) ==
    /\ getId(e) < ss.sparseSize
    /\ getId(SparseAt(ss, getId(e))) < Len(ss.dense)
    /\ getId(ss.dense[getId(SparseAt(ss, getId(e))) + 1]) = getId(e)

SSContains(ss, e) ==
    /\ getId(e) < ss.sparseSize
    /\ getId(SparseAt(ss, getId(e))) < Len(ss.dense)
    /\ ss.dense[getId(SparseAt(ss, getId(e))) + 1] = e

\* the dense slot get(e) indexes components with: sparse[e.id].getId()
SSSlot(ss, e) == getId(SparseAt(ss, getId(e)))

\* get(e), where contains(e) holds
SSGet(ss, e) == ss.components[SSSlot(ss, e) + 1]

\* Faulty variant of insert(): the component of an entity that is already
\* contained is overwritten.
SSInsertOverwrites(ss0, e, component) ==
    LET ss == SSAssureSpace(ss0, e)
    IN IF ~SSContains(ss, e)
       THEN LET pos == Len(ss.dense)
            IN [ss EXCEPT !.sparse = SparsePut(@, getId(e), EntityRaw(pos)),
                          !.dense = Append(@, e),
                          !.components = Append(@, component)]
       ELSE [ss EXCEPT !.components[SSSlot(ss, e) + 1] = component]

\* Faulty variant of insert(): the sparse index of the new entry is not written.
SSInsertForgetsSparse(ss0, e, component) ==
    LET ss == SSAssureSpace(ss0, e)
    IN IF ~SSContains(ss, e)
       THEN [ss EXCEPT !.dense = Append(@, e),
                       !.components = Append(@, component)]
       ELSE ss

SSInsert(ss0, e, component) ==
    LET ss == SSAssureSpace(ss0, e)
    IN IF ~SSContains(ss, e)
       THEN LET pos == Len(ss.dense)
            IN [ss EXCEPT !.sparse = SparsePut(@, getId(e), EntityRaw(pos)),
                          !.dense = Append(@, e),
                          !.components = Append(@, component)]
       ELSE ss

\* emplace(e, args...): as insert; the reference it returns is the slot of e
SSEmplace(ss0, e, component) ==
    LET ss == SSAssureSpace(ss0, e)
    IN IF ~SSContains(ss, e)
       THEN LET pos == Len(ss.dense)
            IN [ss EXCEPT !.sparse = SparsePut(@, getId(e), EntityRaw(pos)),
                          !.dense = Append(@, e),
                          !.components = Append(@, component)]
       ELSE ss

\* Faulty variant of remove(): dense is not shortened.
SSRemoveKeepsDense(ss, e) ==
    IF ~SSContains(ss, e) THEN ss
    ELSE LET last == Len(ss.dense) - 1
             entityId == getId(e)
             index == getId(SparseAt(ss, entityId))
             lastEntity == ss.dense[last + 1]
             comps == [ss.components EXCEPT ![index + 1] = ss.components[last + 1]]
             dns == [ss.dense EXCEPT ![index + 1] = ss.dense[last + 1]]
             sp1 == SparsePut(ss.sparse, getId(lastEntity), EntityRaw(index))
             sp2 == SparsePut(sp1, entityId, Null)
         IN [ss EXCEPT !.sparse = sp2,
                       !.dense = dns,
                       !.components = SubSeq(comps, 1, last)]

\* Faulty variant of remove(): the last component is not moved into the
\* vacated slot.
SSRemoveNoMove(ss, e) ==
    IF ~SSContains(ss, e) THEN ss
    ELSE LET last == Len(ss.dense) - 1
             entityId == getId(e)
             index == getId(SparseAt(ss, entityId))
             lastEntity == ss.dense[last + 1]
             dns == [ss.dense EXCEPT ![index + 1] = ss.dense[last + 1]]
             sp1 == SparsePut(ss.sparse, getId(lastEntity), EntityRaw(index))
             sp2 == SparsePut(sp1, entityId, Null)
         IN [ss EXCEPT !.sparse = sp2,
                       !.dense = SubSeq(dns, 1, last),
                       !.components = SubSeq(ss.components, 1, last)]

SSRemove(ss, e) ==
    IF ~SSContains(ss, e) THEN ss
    ELSE LET last == Len(ss.dense) - 1
             entityId == getId(e)
             index == getId(SparseAt(ss, entityId))
             lastEntity == ss.dense[last + 1]
             comps == [ss.components EXCEPT ![index + 1] = ss.components[last + 1]]
             dns == [ss.dense EXCEPT ![index + 1] = ss.dense[last + 1]]
             sp1 == SparsePut(ss.sparse, getId(lastEntity), EntityRaw(index))
             sp2 == SparsePut(sp1, entityId, Null)
         IN [ss EXCEPT !.sparse = sp2,
                       !.dense = SubSeq(dns, 1, last),
                       !.components = SubSeq(comps, 1, last)]

SSClear(ss) == [sparseSize |-> 0, sparse |-> <<>>, dense |-> <<>>, components |-> <<>>]

SSSize(ss) == Len(ss.dense)

\* the comparison sort is called with here: std::less over the values
Compare(x, y) == x = "a" /\ y = "b"

\* the orders std::sort may leave indices in: the permutations of the slots
\* 0 .. length-1 (kept as 1 .. length) in which no component is placed before
\* one that compare puts before it; slots with equivalent components may
\* come in any order
SortedIndices(ss) ==
    LET n == Len(ss.dense)
    IN {p \in [1..n -> 1..n] :
          /\ \A i, j \in 1..n : i # j => p[i] # p[j]
          /\ \A i, j \in 1..n :
                i < j => ~Compare(ss.components[p[j]], ss.components[p[i]])}

\* the loop of sort() for one order of indices: components and dense are
\* rebuilt in that order, and sparse[dense[idx].getId()] = Entity{i} is
\* assigned for i = 0 .. length-1 in turn, so for an id that heads several
\* dense entries the last assignment stays
SSSortBy(ss, indices) ==
    LET n == Len(ss.dense)
        ids == {getId(ss.dense[i]) : i \in 1..n}
        lastOf(id) == CHOOSE i \in 1..n :
                         /\ getId(ss.dense[indices[i]]) = id
                         /\ \A j \in (i + 1)..n : getId(ss.dense[indices[j]]) # id
    IN [ss EXCEPT !.sparse = [id \in (DOMAIN ss.sparse) \cup ids |->
                                IF id \in ids THEN EntityRaw(lastOf(id) - 1)
                                ELSE ss.sparse[id]],
                  !.dense = [i \in 1..n |-> ss.dense[indices[i]]],
                  !.components = [i \in 1..n |-> ss.components[indices[i]]]]

\* sort(compare): the sets it may leave.  std::iota fills indices, a vector
\* of Entity, from the int 0; Entity has no assignment from int, so the call
\* is read as filling it with the words Entity{0}, Entity{1}, ...
SSSort(ss) ==
    IF Len(ss.dense) <= 1 THEN {ss}
    ELSE {SSSortBy(ss, indices) : indices \in SortedIndices(ss)}

\* ------------------------------------------------------------------- Pool
\* lastComponent is a T*: nullptr, the address of a slot of the components
\* buffer, or an address outside it ("wild").  The buffer is reserved for a
\* page of components when the pool is built and is never reallocated here,
\* so a slot address is the slot's index.
NullPtr == [kind |-> "null", slot |-> 0]
SlotPtr(k) == [kind |-> "slot", slot |-> k]
WildPtr == [kind |-> "wild", slot |-> 0]

PoolInit ==
    [components |-> SSInit, componentCount |-> 0,
     lastEntity |-> Null, lastComponent |-> NullPtr]

PoolInsert(p, e, component) ==
    LET ss == SSInsert(p.components, e, component)
    IN [components |-> ss,
        componentCount |-> p.componentCount + 1,
        lastEntity |-> e,
        lastComponent |-> SlotPtr(SSSlot(ss, e))]

PoolEmplace(p, e, component) ==
    LET ss == SSEmplace(p.components, e, component)
    IN [components |-> ss,
        componentCount |-> p.componentCount + (IF SSContains(p.components, e) THEN 0 ELSE 1),
        lastEntity |-> e,
        lastComponent |-> SlotPtr(SSSlot(ss, e))]

PoolHas(p, e) ==
    IF e = p.lastEntity THEN TRUE ELSE SSContains(p.components, e)

\* Faulty variant of removeEntity(): the count and the cache are updated
\* without asking contains(e).
PoolRemoveEntityUnchecked(p, e) ==
    [components |-> SSRemove(p.components, e),
     componentCount |-> p.componentCount - 1,
     lastEntity |-> IF e = p.lastEntity THEN Null ELSE p.lastEntity,
     lastComponent |-> IF e = p.lastEntity THEN NullPtr ELSE p.lastComponent]

PoolRemoveEntity(p, e) ==
    IF SSContains(p.components, e)
    THEN [components |-> SSRemove(p.components, e),
          componentCount |-> p.componentCount - 1,
          lastEntity |-> IF e = p.lastEntity THEN Null ELSE p.lastEntity,
          lastComponent |-> IF e = p.lastEntity THEN NullPtr ELSE p.lastComponent]
    ELSE p

PoolSize(p) == p.componentCount

PoolClear(p) ==
    [components |-> SSClear(p.components), componentCount |-> 0,
     lastEntity |-> Null, lastComponent |-> NullPtr]

\* get(e) takes the cached pointer when e is the cached entity
PoolGetHitsCache(p, e) == e = p.lastEntity

\* the pointer get(e) returns: the cached one, or the slot SparseSet::get
\* finds (where contains(e) holds)
PoolGetPtr(p, e) ==
    IF PoolGetHitsCache(p, e) THEN p.lastComponent
    ELSE SlotPtr(SSSlot(p.components, e))

\* the pool after get(e), where the cache is hit or contains(e) holds
PoolAfterGet(p, e) ==
    IF PoolGetHitsCache(p, e) THEN p
    ELSE [p EXCEPT !.lastEntity = e,
                   !.lastComponent = SlotPtr(SSSlot(p.components, e))]

\* -------------------------------------------------------------------- ECS
\* The facade's state is the record [em, pools, made].  A call gives the
\* state after it, the exception it threw ("none" when it returned) and what
\* it returned.
ErrNone == "none"
ErrInvalidEntity == "Invalid entity"
ErrTypeNotFound == "Component type not found"
\* assert(contains(entity)) failed: the process is aborted
ErrAssert == "assertion failed"
\* the call returned a reference that refers to no component
ErrUndefined == "undefined"

Store(m, ps, md) == [em |-> m, pools |-> ps, made |-> md]

ECSInit == Store(EMInit, [t \in Types |-> PoolInit], {})

ECSIsValid(st, e) == EMIsValid(st.em, e)

\* getPool<T>(): makes the pool on first use
ECSGetPool(st, t) == [st EXCEPT !.made = @ \cup {t}]

ECSCreateEntity(st) ==
    LET r == EMCreate(st.em)
    IN [st |-> [st EXCEPT !.em = r.em], entity |-> r.entity]

\* Faulty variant of destroyEntity(): the entity is destroyed without being
\* removed from the pools.
ECSDestroyEntityKeepsComponents(st, e) ==
    IF ~ECSIsValid(st, e) THEN st
    ELSE [st EXCEPT !.em = EMDestroy(st.em, e)]

ECSDestroyEntity(st, e) ==
    IF ~ECSIsValid(st, e) THEN st
    ELSE [st EXCEPT
            !.pools = [t \in Types |->
                         IF t \in st.made THEN PoolRemoveEntity(st.pools[t], e)
                         ELSE st.pools[t]],
            !.em = EMDestroy(st.em, e)]

ECSHasComponent(st, e, t) ==
    IF ~ECSIsValid(st, e) THEN FALSE
    ELSE IF t \notin st.made THEN FALSE
    ELSE PoolHas(st.pools[t], e)

ECSRemoveComponent(st, e, t) ==
    IF ~ECSIsValid(st, e) THEN st
    ELSE IF t \in st.made
         THEN [st EXCEPT !.pools[t] = PoolRemoveEntity(@, e)]
         ELSE st

\* removeComponents<First, Rest...>(e): removeComponent for each type in turn
RECURSIVE ECSRemoveComponents(_, _, _)
ECSRemoveComponents(st, e, types) ==
    IF types = <<>> THEN st
    ELSE ECSRemoveComponents(ECSRemoveComponent(st, e, Head(types)), e, Tail(types))

ECSClear(st) ==
    [st EXCEPT !.pools = [t \in Types |->
                            IF t \in st.made THEN PoolClear(st.pools[t])
                            ELSE st.pools[t]],
               !.em = EMClear(st.em)]

ECSSize(st) == EMSize(st.em)

\* what a read through a component pointer gives: the component in the slot;
\* nothing when the pointer refers to no component of the pool
Deref(p, ptr) ==
    IF ptr.kind = "slot" /\ ptr.slot < Len(p.components.components)
    THEN <<p.components.components[ptr.slot + 1]>>
    ELSE <<>>

\* Faulty variant of addComponent(): the pool is looked up, and so made,
\* before the entity is checked.
ECSAddComponentPoolFirst(st, e, t, component) ==
    LET s1 == ECSGetPool(st, t)
    IN IF ~ECSIsValid(st, e)
       THEN [st |-> s1, err |-> ErrInvalidEntity, out |-> <<>>]
       ELSE LET p1 == PoolInsert(s1.pools[t], e, component)
                p2 == PoolAfterGet(p1, e)
            IN [st |-> [s1 EXCEPT !.pools[t] = p2],
                err |-> ErrNone,
                out |-> Deref(p1, PoolGetPtr(p1, e))]

\* addComponent(e, component): insert, then return pool.get(e)
ECSAddComponent(st, e, t, component) ==
    IF ~ECSIsValid(st, e)
    THEN [st |-> st, err |-> ErrInvalidEntity, out |-> <<>>]
    ELSE LET s1 == ECSGetPool(st, t)
             p1 == PoolInsert(s1.pools[t], e, component)
             p2 == PoolAfterGet(p1, e)
         IN [st |-> [s1 EXCEPT !.pools[t] = p2],
             err |-> ErrNone,
             out |-> Deref(p1, PoolGetPtr(p1, e))]

ECSEmplaceComponent(st, e, t, component) ==
    IF ~ECSIsValid(st, e)
    THEN [st |-> st, err |-> ErrInvalidEntity, out |-> <<>>]
    ELSE LET s1 == ECSGetPool(st, t)
             p1 == PoolEmplace(s1.pools[t], e, component)
         IN [st |-> [s1 EXCEPT !.pools[t] = p1],
             err |-> ErrNone,
             out |-> Deref(p1, p1.lastComponent)]

\* a write through a component pointer: it changes the component in the slot,
\* and no component of the pool when the pointer refers to none
PoolWrite(p, ptr, component) ==
    IF ptr.kind = "slot" /\ ptr.slot < Len(p.components.components)
    THEN [p EXCEPT !.components.components[ptr.slot + 1] = component]
    ELSE p

ErrOfRef(ref) == IF ref = <<>> THEN ErrUndefined ELSE ErrNone

\* replaceComponent(e, component): insert when has(e) is false, else assign
\* through pool.get(e); then return pool.get(e)
ECSReplaceComponent(st, e, t, component) ==
    IF ~ECSIsValid(st, e)
    THEN [st |-> st, err |-> ErrInvalidEntity, out |-> <<>>]
    ELSE LET s1 == ECSGetPool(st, t)
             p  == s1.pools[t]
             p1 == IF ~PoolHas(p, e)
                   THEN PoolInsert(p, e, component)
                   ELSE PoolWrite(PoolAfterGet(p, e), PoolGetPtr(p, e), component)
             p2 == PoolAfterGet(p1, e)
             ref == Deref(p1, PoolGetPtr(p1, e))
         IN [st |-> [s1 EXCEPT !.pools[t] = p2], err |-> ErrOfRef(ref), out |-> ref]

\* &components[index]: inside the reserved buffer or far outside it
IndexPtr(index) == IF index < pageSize THEN SlotPtr(index) ELSE WildPtr

\* SparseSet::get(e) where contains(e) is false and the assert is compiled
\* out: the pointers &components[sparse[e.id].getId()] can be.  With e.id
\* inside sparse the word read is the one stored; with e.id past its end the
\* read is outside the vector and gives whatever that memory holds.
SSGetUnchecked(ss, e) ==
    IF getId(e) < ss.sparseSize
    THEN {IndexPtr(getId(SparseAt(ss, getId(e))))}
    ELSE {WildPtr} \cup {SlotPtr(k) : k \in 0..Len(ss.dense)}

\* getComponent(e), non-const: the outcomes of the call
ECSGetComponent(st, e, t) ==
    IF ~ECSIsValid(st, e)
    THEN {[st |-> st, err |-> ErrInvalidEntity, out |-> <<>>]}
    ELSE LET s1 == ECSGetPool(st, t)
             p  == s1.pools[t]
         IN IF PoolGetHitsCache(p, e)
            THEN {[st |-> s1, err |-> ErrOfRef(Deref(p, p.lastComponent)),
                   out |-> Deref(p, p.lastComponent)]}
            ELSE IF SSContains(p.components, e)
            THEN {[st |-> [s1 EXCEPT !.pools[t] = PoolAfterGet(p, e)],
                   err |-> ErrNone,
                   out |-> <<SSGet(p.components, e)>>]}
            ELSE {[st |-> s1, err |-> ErrAssert, out |-> <<>>]}
                 \cup {[st |-> [s1 EXCEPT !.pools[t] =
                                   [p EXCEPT !.lastEntity = e, !.lastComponent = ptr]],
                        err |-> ErrUndefined,
                        out |-> <<>>] : ptr \in SSGetUnchecked(p.components, e)}

\* getComponent(e) const: the outcomes of the call
ECSGetComponentConst(st, e, t) ==
    IF ~ECSIsValid(st, e)
    THEN {[st |-> st, err |-> ErrInvalidEntity, out |-> <<>>]}
    ELSE IF t \notin st.made
    THEN {[st |-> st, err |-> ErrTypeNotFound, out |-> <<>>]}
    ELSE IF SSContains(st.pools[t].components, e)
    THEN {[st |-> st, err |-> ErrNone, out |-> <<SSGet(st.pools[t].components, e)>>]}
    ELSE {[st |-> st, err |-> ErrAssert, out |-> <<>>],
          [st |-> st, err |-> ErrUndefined, out |-> <<>>]}

\* ------------------------------------------------------------------- View
\* view<Components...>(): binds the pool of each type, made on first use
ECSView(st, types) ==
    [st EXCEPT !.made = @ \cup {types[i] : i \in 1..Len(types)}]

\* findSmallestPool: the first pool, in declaration order, of the least size()
ViewFindSmallestPool(ps, types) ==
    LET least(i) == \A j \in 1..Len(types) :
                       /\ PoolSize(ps[types[i]]) <= PoolSize(ps[types[j]])
                       /\ (j < i => PoolSize(ps[types[j]]) > PoolSize(ps[types[i]]))
    IN types[CHOOSE i \in 1..Len(types) : least(i)]

\* Faulty variant of entityExistsInAllPools: only the first bound pool is asked.
ViewEntityExistsInFirstPool(ps, types, e) ==
    PoolHas(ps[types[1]], e)

ViewEntityExistsInAllPools(ps, types, e) ==
    \A i \in 1..Len(types) : PoolHas(ps[types[i]], e)

\* pool->get(entity)... for every bound pool: the caches after the calls
ViewGetAll(ps, types, e) ==
    [t \in DOMAIN ps |->
        IF \E i \in 1..Len(types) : types[i] = t THEN PoolAfterGet(ps[t], e) ELSE ps[t]]

\* the loop of eachEntityWithComponents / eachComponents / eachEntity over the
\* driver's dense list, from position i on: the pools after it and the
\* entities the visitor was called for
RECURSIVE ViewLoop(_, _, _, _, _, _)
ViewLoop(ps, types, entities, i, visited, entityOnly) ==
    IF i > Len(entities) THEN [pools |-> ps, visited |-> visited]
    ELSE IF ViewEntityExistsInAllPools(ps, types, entities[i])
         THEN ViewLoop(IF entityOnly THEN ps ELSE ViewGetAll(ps, types, entities[i]),
                       types, entities, i + 1, Append(visited, entities[i]), entityOnly)
         ELSE ViewLoop(ps, types, entities, i + 1, visited, entityOnly)

\* each(visitor)
ViewEach(ps, types, entityOnly) ==
    LET driver == ViewFindSmallestPool(ps, types)
    IN ViewLoop(ps, types, ps[driver].components.dense, 1, <<>>, entityOnly)

\* the references eachEntityWithComponents / eachComponents pass to the
\* visitor, entity by entity: what pool->get(entity) returns in each bound
\* pool, in the order of the type list
RECURSIVE ViewRefs(_, _, _, _, _)
ViewRefs(ps, types, entities, i, refs) ==
    IF i > Len(entities) THEN refs
    ELSE IF ViewEntityExistsInAllPools(ps, types, entities[i])
         THEN ViewRefs(ViewGetAll(ps, types, entities[i]), types, entities, i + 1,
                       Append(refs, [entity |-> entities[i],
                                     ptr |-> [k \in 1..Len(types) |->
                                                PoolGetPtr(ps[types[k]], entities[i])]]))
         ELSE ViewRefs(ps, types, entities, i + 1, refs)

ViewEachRefs(ps, types) ==
    LET driver == ViewFindSmallestPool(ps, types)
    IN ViewRefs(ps, types, ps[driver].components.dense, 1, <<>>)

\* a visitor that assigns component to every reference it is passed: the
\* pools after pool->get(entity) and the assignment, for every bound pool
ViewWriteAll(ps, types, e, component) ==
    [t \in DOMAIN ps |->
        IF \E i \in 1..Len(types) : types[i] = t
        THEN PoolWrite(PoolAfterGet(ps[t], e), PoolGetPtr(ps[t], e), component)
        ELSE ps[t]]

\* the loop of eachComponents with that visitor
RECURSIVE ViewLoopWrite(_, _, _, _, _, _)
ViewLoopWrite(ps, types, entities, i, visited, component) ==
    IF i > Len(entities) THEN [pools |-> ps, visited |-> visited]
    ELSE IF ViewEntityExistsInAllPools(ps, types, entities[i])
         THEN ViewLoopWrite(ViewWriteAll(ps, types, entities[i], component),
                            types, entities, i + 1, Append(visited, entities[i]), component)
         ELSE ViewLoopWrite(ps, types, entities, i + 1, visited, component)

ViewEachWrite(ps, types, component) ==
    LET driver == ViewFindSmallestPool(ps, types)
    IN ViewLoopWrite(ps, types, ps[driver].components.dense, 1, <<>>, component)

\* ------------------------------------------------------ the caller's handles
\* every handle over the ids the model issues, one id it never issues, and null
Handles ==
    {EntityOf(i, v) : i \in 0..MaxIds, v \in 0..versionMask} \cup {Null}

\* for the facade: every handle over the ids it issues, the first handle of
\* one id it never issues, and null
FacadeHandles ==
    {EntityOf(i, v) : i \in 0..(MaxEntities - 1), v \in 0..versionMask}
        \cup {EntityOf(MaxEntities, 0), Null}

\* the type lists a view is made over
ViewLists ==
    {<<t>> : t \in Types} \cup ({<<t, u>> : t, u \in Types} \ {<<t, t>> : t \in Types})

\* ret: the call made (op), whether it did its work (ok), the exception it
\* threw (err), the entity it returned (entity) and what else it gave (out)
Ret(op, e, ok, err, out) ==
    [op |-> op, entity |-> e, ok |-> ok, err |-> err, out |-> out]

NoRet == Ret("none", Null, TRUE, ErrNone, <<>>)

\* The history of one handle, picked when create returns it:
\*   "issued"    create has returned it
\*   "destroyed" a destroy of it has succeeded, and create has not issued its id since
\*   "reissued"  a destroy of it has succeeded, and create has issued its id since
\*   "retired"   it was issued, and clear() has run since
NoWatch == [entity |-> Null, phase |-> "none"]

WatchAfterCreate(w, r) ==
    IF w.phase = "none" THEN {w, [entity |-> r, phase |-> "issued"]}
    ELSE IF w.phase = "destroyed" /\ getId(r) = getId(w.entity)
         THEN {[w EXCEPT !.phase = "reissued"]}
         ELSE {w}

WatchAfterDestroy(w, e, passed) ==
    IF passed /\ w.phase = "issued" /\ w.entity = e
    THEN [w EXCEPT !.phase = "destroyed"]
    ELSE w

WatchAfterClear(w) ==
    IF w.phase = "none" THEN w ELSE [w EXCEPT !.phase = "retired"]

store == Store(em, pools, made)

Init ==
    /\ em = ECSInit.em
    /\ pools = ECSInit.pools
    /\ made = ECSInit.made
    /\ ret = NoRet
    /\ steps = 0
    /\ watch = NoWatch
    /\ sset = SSInit

\* ------------------------------------------- EntityManager, driven directly
facade == <<pools, made, steps>>

CreateUpTo(liveBound, idBound) ==
    /\ Len(em.validEntities) < liveBound
    /\ em.recycledIds # <<>> \/ em.nextId < idBound
    /\ LET r == EMCreate(em)
       IN /\ em' = r.em
          /\ ret' = Ret("create", r.entity, TRUE, ErrNone, <<>>)
          /\ watch' \in WatchAfterCreate(watch, r.entity)
    /\ UNCHANGED <<facade, sset>>

DestroyUpTo(e, queueBound) ==
    /\ Len(em.recycledIds) < queueBound
    /\ em' = EMDestroy(em, e)
    /\ ret' = Ret("destroy", Null, EMDestroyPasses(em, e), ErrNone, <<>>)
    /\ watch' = WatchAfterDestroy(watch, e, EMDestroyPasses(em, e))
    /\ UNCHANGED <<facade, sset>>

Clear ==
    /\ em' = EMClear(em)
    /\ ret' = Ret("clear", Null, TRUE, ErrNone, <<>>)
    /\ watch' = WatchAfterClear(watch)
    /\ UNCHANGED <<facade, sset>>

Create == CreateUpTo(MaxLive, MaxIds)
CreateHigh == CreateUpTo(HighLive, HighIds)
Destroy(e) == DestroyUpTo(e, MaxQueue)
DestroyHigh(e) == DestroyUpTo(e, HighQueue)
DestroyLong(e) == DestroyUpTo(e, LongQueue)

\* create and destroy only
NextCD == Create \/ \E e \in Handles : Destroy(e)
SpecCD == Init /\ [][NextCD]_vars

\* create and destroy only, with room for a full version cycle in the queue
NextRecycle == Create \/ \E e \in Handles : DestroyLong(e)
SpecRecycle == Init /\ [][NextRecycle]_vars

\* create and destroy only, with ids enough for the version table to double
\* past the high-water mark; the caller destroys first handles of ids only
HighHandles ==
    {EntityOf(i, 0) : i \in 0..(HighIds - 1)} \cup {Null}
NextHigh == CreateHigh \/ \E e \in HighHandles : DestroyHigh(e)
SpecHigh == Init /\ [][NextHigh]_vars

\* create, destroy and clear
NextEM == Create \/ (\E e \in Handles : Destroy(e)) \/ Clear
SpecEM == Init /\ [][NextEM]_vars

\* ----------------------------------------------- SparseSet, driven directly
\* the handles its caller passes: any id and version, equal ids among them
SetHandles == {EntityOf(i, v) : i \in 0..MaxSetIds, v \in SetVersions}
WideSetHandles == {EntityOf(i, v) : i \in 0..WideSetIds, v \in SetVersions}

others == <<em, pools, made, steps, watch>>

\* ret.ok: the entity was not contained when the call was made
SetInsertUpTo(e, component, denseBound) ==
    /\ Len(sset.dense) < denseBound
    /\ sset' = SSInsert(sset, e, component)
    /\ ret' = Ret("insert", Null, ~SSContains(sset, e), ErrNone, <<>>)
    /\ UNCHANGED others

SetEmplaceUpTo(e, component, denseBound) ==
    /\ Len(sset.dense) < denseBound
    /\ sset' = SSEmplace(sset, e, component)
    /\ ret' = Ret("emplace", Null, ~SSContains(sset, e), ErrNone, <<>>)
    /\ UNCHANGED others

\* ret.ok: the entity was contained when the call was made
SetRemove(e) ==
    /\ sset' = SSRemove(sset, e)
    /\ ret' = Ret("remove", Null, SSContains(sset, e), ErrNone, <<>>)
    /\ UNCHANGED others

SetClear ==
    /\ sset' = SSClear(sset)
    /\ ret' = Ret("clearSet", Null, TRUE, ErrNone, <<>>)
    /\ UNCHANGED others

SetSort ==
    /\ \E ss \in SSSort(sset) : sset' = ss
    /\ ret' = Ret("sort", Null, TRUE, ErrNone, <<>>)
    /\ UNCHANGED others

SetInsert(e, component) == SetInsertUpTo(e, component, MaxDense)
SetEmplace(e, component) == SetEmplaceUpTo(e, component, MaxDense)
SetInsertWide(e, component) == SetInsertUpTo(e, component, WideDense)
SetEmplaceWide(e, component) == SetEmplaceUpTo(e, component, WideDense)

NextSS ==
    \/ \E e \in SetHandles, c \in Values : SetInsert(e, c)
    \/ \E e \in SetHandles, c \in Values : SetEmplace(e, c)
    \/ \E e \in SetHandles \cup {Null} : SetRemove(e)
    \/ SetClear
SpecSS == Init /\ [][NextSS]_vars

\* the same calls, and sort
NextSort == NextSS \/ SetSort
SpecSort == Init /\ [][NextSort]_vars

\* the same calls, with handles of one more id and a longer dense list
NextSSWide ==
    \/ \E e \in WideSetHandles, c \in Values : SetInsertWide(e, c)
    \/ \E e \in WideSetHandles, c \in Values : SetEmplaceWide(e, c)
    \/ \E e \in WideSetHandles \cup {Null} : SetRemove(e)
    \/ SetClear
SpecSSWide == Init /\ [][NextSSWide]_vars

\* ------------------------------------------------------------- ECS facade
\* a call is made while the process runs: a failed assert has aborted it
Running == ret.err # ErrAssert

Apply(st) ==
    /\ em' = st.em
    /\ pools' = st.pools
    /\ made' = st.made
    /\ steps' = steps + 1
    /\ UNCHANGED <<watch, sset>>

\* the entities other than e in the pools that hold e, pool by pool
RemovedBeside(st, e) ==
    LET beside(t) == IF t \in st.made /\ SSContains(st.pools[t].components, e)
                     THEN SelectSeq(st.pools[t].components.dense, LAMBDA x : x # e)
                     ELSE <<>>
    IN beside("Position") \o beside("Velocity")

CreateEntity ==
    /\ Running
    /\ em.recycledIds # <<>> \/ em.nextId < MaxEntities
    /\ LET r == ECSCreateEntity(store)
       IN /\ Apply(r.st)
          /\ ret' = Ret("createEntity", r.entity, TRUE, ErrNone, <<>>)

\* ret.out: the entities left in the pools that held a component of e
DestroyEntity(e) ==
    /\ Running
    /\ Apply(ECSDestroyEntity(store, e))
    /\ ret' = Ret("destroyEntity", Null, ECSIsValid(store, e), ErrNone,
                  IF ECSIsValid(store, e) THEN RemovedBeside(store, e) ELSE <<>>)

AddComponent(e, t, c) ==
    /\ Running
    /\ LET r == ECSAddComponent(store, e, t, c)
       IN /\ ret' = Ret("addComponent", Null, r.err = ErrNone, r.err, r.out)
          /\ Apply(r.st)

EmplaceComponent(e, t, c) ==
    /\ Running
    /\ LET r == ECSEmplaceComponent(store, e, t, c)
       IN /\ ret' = Ret("emplaceComponent", Null, r.err = ErrNone, r.err, r.out)
          /\ Apply(r.st)

ReplaceComponent(e, t, c) ==
    /\ Running
    /\ LET r == ECSReplaceComponent(store, e, t, c)
       IN /\ ret' = Ret("replaceComponent", Null, r.err = ErrNone, r.err, r.out)
          /\ Apply(r.st)

GetComponent(e, t) ==
    /\ Running
    /\ \E r \in ECSGetComponent(store, e, t) :
          /\ ret' = Ret("getComponent", Null, r.err = ErrNone, r.err, r.out)
          /\ Apply(r.st)

GetComponentConst(e, t) ==
    /\ Running
    /\ \E r \in ECSGetComponentConst(store, e, t) :
          /\ ret' = Ret("getComponentConst", Null, r.err = ErrNone, r.err, r.out)
          /\ Apply(r.st)

RemoveComponent(e, t) ==
    /\ Running
    /\ Apply(ECSRemoveComponent(store, e, t))
    /\ ret' = Ret("removeComponent", Null, ECSIsValid(store, e), ErrNone, <<>>)

RemoveComponents(e, types) ==
    /\ Running
    /\ ret' = Ret("removeComponents", Null, ECSIsValid(store, e), ErrNone, <<>>)
    /\ Apply(ECSRemoveComponents(store, e, types))

\* ret.out: the entities that held a component when clear() was called
ClearAll ==
    /\ Running
    /\ Apply(ECSClear(store))
    /\ ret' = Ret("clearAll", Null, TRUE, ErrNone,
                  pools["Position"].components.dense \o pools["Velocity"].components.dense)

\* view<types...>().each(visitor); ret.out: the entities the visitor was called for
Each(types, entityOnly) ==
    /\ Running
    /\ LET s1 == ECSView(store, types)
           r  == ViewEach(s1.pools, types, entityOnly)
       IN /\ Apply([s1 EXCEPT !.pools = r.pools])
          /\ ret' = Ret(IF Len(types) = 1 THEN "each1" ELSE "each2", Null,
                        TRUE, ErrNone, r.visited)

\* view<types...>().each(visitor) with a visitor that assigns c to every
\* component it is passed; ret.out: the entities the visitor was called for
EachWrite(types, c) ==
    /\ Running
    /\ LET s1 == ECSView(store, types)
           r  == ViewEachWrite(s1.pools, types, c)
       IN /\ ret' = Ret("eachWrite", Null, TRUE, ErrNone, r.visited)
          /\ Apply([s1 EXCEPT !.pools = r.pools])

\* create, add, remove, destroy and the view
NextView ==
    /\ steps < ViewSteps
    /\ \/ CreateEntity
       \/ \E e \in FacadeHandles : DestroyEntity(e)
       \/ \E e \in FacadeHandles, t \in Types, c \in Values : AddComponent(e, t, c)
       \/ \E e \in FacadeHandles, t \in Types : RemoveComponent(e, t)
       \/ \E types \in ViewLists, entityOnly \in BOOLEAN : Each(types, entityOnly)
SpecView == Init /\ [][NextView]_vars

\* the calls that read and write components, and the view with a visitor
\* that reads and one that writes
NextVisit ==
    /\ steps < VisitSteps
    /\ \/ CreateEntity
       \/ \E e \in FacadeHandles : DestroyEntity(e)
       \/ \E e \in FacadeHandles, t \in Types, c \in Values : AddComponent(e, t, c)
       \/ \E e \in FacadeHandles, t \in Types, c \in Values : ReplaceComponent(e, t, c)
       \/ \E e \in FacadeHandles, t \in Types : RemoveComponent(e, t)
       \/ \E e \in FacadeHandles, types \in ViewLists : RemoveComponents(e, types)
       \/ \E e \in FacadeHandles, t \in Types : GetComponent(e, t)
       \/ \E types \in ViewLists, entityOnly \in BOOLEAN : Each(types, entityOnly)
       \/ \E types \in ViewLists, c \in Values : EachWrite(types, c)
SpecVisit == Init /\ [][NextVisit]_vars

\* every call of the facade
Next ==
    /\ steps < MaxSteps
    /\ \/ CreateEntity
       \/ \E e \in FacadeHandles : DestroyEntity(e)
       \/ \E e \in FacadeHandles, t \in Types, c \in Values : AddComponent(e, t, c)
       \/ \E e \in FacadeHandles, t \in Types, c \in Values : EmplaceComponent(e, t, c)
       \/ \E e \in FacadeHandles, t \in Types, c \in Values : ReplaceComponent(e, t, c)
       \/ \E e \in FacadeHandles, t \in Types : RemoveComponent(e, t)
       \/ \E e \in FacadeHandles, t \in Types : GetComponent(e, t)
       \/ \E e \in FacadeHandles, t \in Types : GetComponentConst(e, t)
       \/ ClearAll
       \/ \E types \in ViewLists, entityOnly \in BOOLEAN : Each(types, entityOnly)
Spec == Init /\ [][Next]_vars

\* ======================================================================
\* Properties
\* ======================================================================
Range(seq) == {seq[i] : i \in 1..Len(seq)}

\* e has a component of type t stored in the pool
Stored(ps, e, t) == SSContains(ps[t].components, e)

\* C1: for a view over two component types, each() calls the visitor exactly
\* once for every entity stored in both pools when it is called and for no
\* other entity, whichever pool has fewer members.
C1_ViewVisitsIntersection ==
    [][\A types \in ViewLists, entityOnly \in BOOLEAN :
          (ret'.op = "each2" /\ Len(types) = 2 /\ Each(types, entityOnly)) =>
             /\ Range(ret'.out) =
                  {e \in FacadeHandles : Stored(pools, e, types[1]) /\ Stored(pools, e, types[2])}
             /\ Cardinality(Range(ret'.out)) = Len(ret'.out)]_vars

\* a two-type view has visited an entity of the smaller pool while the larger
\* pool holds an entity that is in one pool only
C1_Witness ==
    /\ ret.op = "each2"
    /\ ret.out # <<>>
    /\ \E t, u \in Types :
          /\ Len(pools[t].components.dense) < Len(pools[u].components.dense)
          /\ \E e \in Range(pools[u].components.dense) : ~Stored(pools, e, t)

\* C2: the entity create() returns, from a fresh id or a recycled one, is
\* valid right after the call and is not the null entity.
C2_CreatedIsValid ==
    ret.op = "create" => (EMIsValid(em, ret.entity) /\ ret.entity # Null)

\* create() has returned an entity on a recycled id
C2_Witness ==
    ret.op = "create" /\ getVersion(ret.entity) # 0 /\ EMIsValid(em, ret.entity)

\* C3: destroy(e) of a valid e leaves e invalid, and the next entity create()
\* issues with e's id differs from e in version, so compares unequal to e.
C3_ReissueDiffers ==
    [][/\ \A e \in Handles :
             (EMIsValid(em, e) /\ DestroyLong(e)) => ~EMIsValid(em', e)
       /\ (Create /\ watch.phase = "destroyed"
                  /\ getId(ret'.entity) = getId(watch.entity)) =>
             (getVersion(ret'.entity) # getVersion(watch.entity)
                /\ ret'.entity # watch.entity)]_vars

\* C4 as stated: a handle a destroy has succeeded for is invalid in every
\* later state reached by create and destroy.
C4_StaleStaysStale ==
    watch.phase \in {"destroyed", "reissued"} => ~EMIsValid(em, watch.entity)

\* the number of successful destroys of e's id after which e is valid (again)
StaleBy(m, e) ==
    (getVersion(e) + versionMask + 1 - VersionAt(m, getId(e))) % (versionMask + 1)

\* C4, amended: a successful destroy(e) leaves e three destroys away from being
\* valid; create never brings a stale handle closer, and a successful destroy
\* of its id brings it closer by exactly one.  So e is invalid until three
\* further destroys of its id have succeeded, when the 2-bit version wraps.
C4_StaleUntilVersionWraps ==
    [][\A e \in Handles :
          getId(e) < Len(em.versions) =>
             /\ (StaleBy(em, e) = 0 /\ Destroy(e)) => StaleBy(em', e) = versionMask
             /\ StaleBy(em, e) # 0 =>
                   \/ StaleBy(em', e) = StaleBy(em, e)
                   \/ /\ StaleBy(em', e) = StaleBy(em, e) - 1
                      /\ ret'.op = "destroy"
                      /\ ret'.ok]_vars

\* a destroyed handle is still invalid after two further destroys of its id
C4_Witness ==
    /\ watch.phase = "reissued"
    /\ StaleBy(em, watch.entity) = 1
    /\ ~EMIsValid(em, watch.entity)

\* C5: after any create / destroy sequence every issued entity has a version
\* within versionMask and no two entries of the live list share an id.
C5_LiveIdsDistinct ==
    /\ ret.op = "create" => getVersion(ret.entity) <= versionMask
    /\ \A i, j \in 1..Len(em.validEntities) :
          i # j => getId(em.validEntities[i]) # getId(em.validEntities[j])

\* C6: right after ECS::clear() size() is 0, and every entity created before
\* is invalid and has no component of any type.
C6_ClearEmptiesStore ==
    ret.op = "clearAll" =>
       /\ ECSSize(store) = 0
       /\ \A e \in FacadeHandles :
             /\ ~ECSIsValid(store, e)
             /\ \A t \in Types : ~ECSHasComponent(store, e, t) /\ ~Stored(pools, e, t)

\* clear() has run on a store that held components
C6_Witness ==
    ret.op = "clearAll" /\ ret.out # <<>>

\* C7: after clear() ids restart from zero, and a handle issued before the
\* clear is invalid whenever it is referenced afterwards.
C7_RetiredStayInvalid ==
    /\ ret.op = "clear" => em.nextId = 0
    /\ watch.phase = "retired" => ~EMIsValid(em, watch.entity)

\* C8: addComponent, emplaceComponent, replaceComponent and getComponent with
\* an invalid entity throw "Invalid entity" and change neither the entity
\* manager nor any pool.
C8_InvalidEntityRejected ==
    [][\A op \in {"addComponent", "emplaceComponent", "replaceComponent",
                  "getComponent", "getComponentConst"} :
          (/\ ret'.op = op
           /\ \E e \in FacadeHandles :
                 /\ ~ECSIsValid(store, e)
                 /\ \E t \in Types :
                       \/ op = "addComponent" /\ \E c \in Values : AddComponent(e, t, c)
                       \/ op = "emplaceComponent" /\ \E c \in Values : EmplaceComponent(e, t, c)
                       \/ op = "replaceComponent" /\ \E c \in Values : ReplaceComponent(e, t, c)
                       \/ op = "getComponent" /\ GetComponent(e, t)
                       \/ op = "getComponentConst" /\ GetComponentConst(e, t)) =>
             /\ ret'.err = ErrInvalidEntity
             /\ em' = em
             /\ pools' = pools
             /\ made' = made]_vars

\* a call on the stale handle of a destroyed entity has been rejected while a
\* pool holds components
C8_Witness ==
    /\ ret.op \in {"addComponent", "emplaceComponent", "replaceComponent", "getComponent"}
    /\ ret.err = ErrInvalidEntity
    /\ em.recycledIds # <<>>
    /\ \E t \in made : pools[t].components.dense # <<>>

\* C9: getComponent<T>(e) on a valid e without a component of type T throws
\* "Component type not found" and leaves the store unchanged.
C9_MissingComponentReported ==
    [][\A e \in FacadeHandles, t \in Types :
          (/\ ret'.op \in {"getComponent", "getComponentConst"}
           /\ ECSIsValid(store, e)
           /\ ~(t \in made /\ Stored(pools, e, t))
           /\ (GetComponent(e, t) \/ GetComponentConst(e, t))) =>
             /\ ret'.err = ErrTypeNotFound
             /\ em' = em
             /\ pools' = pools
             /\ made' = made]_vars

\* C10: after destroyEntity(e) on a valid e no pool holds e and hasComponent
\* is false for e and every type; every other entity is stored in the pools
\* it was stored in, with the values it had, and hasComponent answers for
\* every other valid entity as it did before.
C10_DestroyRemovesOnlyE ==
    [][\A e \in FacadeHandles :
          (ret'.op = "destroyEntity" /\ ECSIsValid(store, e) /\ DestroyEntity(e)) =>
             /\ \A t \in Types :
                   /\ ~ECSHasComponent(Store(em', pools', made'), e, t)
                   /\ ~Stored(pools', e, t)
             /\ \A o \in FacadeHandles \ {e}, t \in Types :
                   /\ Stored(pools', o, t) = Stored(pools, o, t)
                   /\ ECSIsValid(store, o) =>
                         ECSHasComponent(Store(em', pools', made'), o, t) = ECSHasComponent(store, o, t)
                   /\ Stored(pools, o, t) =>
                         SSGet(pools'[t].components, o) = SSGet(pools[t].components, o)]_vars

\* destroyEntity has removed e from a pool that holds other entities too
C10_Witness ==
    ret.op = "destroyEntity" /\ ret.ok /\ ret.out # <<>>

\* C11 as stated: right after insert(e, v), contains(e) is true and get(e) is v.
C11_InsertThenGet ==
    [][\A e \in SetHandles, v \in Values :
          (ret'.op = "insert" /\ SetInsert(e, v)) =>
             (SSContains(sset', e) /\ SSGet(sset', e) = v)]_vars

\* C11, amended: right after insert(e, v), contains(e) is true; get(e) is v
\* when e was not contained before the call, and the value stored before
\* the call when it was.
C11_InsertThenGetUnlessPresent ==
    [][\A e \in SetHandles, v \in Values :
          (ret'.op = "insert" /\ SetInsert(e, v)) =>
             /\ SSContains(sset', e)
             /\ ~SSContains(sset, e) => SSGet(sset', e) = v
             /\ SSContains(sset, e) => SSGet(sset', e) = SSGet(sset, e)]_vars

\* insert has been called for an entity the set contained, beside another
C11_Witness ==
    ret.op = "insert" /\ ~ret.ok /\ Len(sset.dense) >= 2

\* C12: for a member e, after remove(e) contains(e) is false and size() is
\* one less than before.
C12_RemoveMember ==
    [][\A e \in SetHandles :
          (ret'.op = "remove" /\ SSContains(sset, e) /\ SetRemove(e)) =>
             /\ ~SSContains(sset', e)
             /\ SSSize(sset') = SSSize(sset) - 1]_vars

\* a member has been removed from a set that still holds entities
C12_Witness ==
    ret.op = "remove" /\ ret.ok /\ sset.dense # <<>>

\* C13: remove of an entity that is not a member changes nothing (sparse,
\* dense, components, size), in SparseSet::remove, Pool::removeEntity and
\* ECS::removeComponent; so a second remove of the same entity leaves the
\* state the first one left.
C13_RemoveTwiceIsOnce ==
    \A e \in FacadeHandles, t \in Types :
       LET ss == pools[t].components
           p  == pools[t]
       IN /\ ~SSContains(ss, e) =>
                /\ SSRemove(ss, e) = ss
                /\ PoolRemoveEntity(p, e) = p
                /\ ECSRemoveComponent(store, e, t) = store
          /\ SSRemove(SSRemove(ss, e), e) = SSRemove(ss, e)
          /\ PoolRemoveEntity(PoolRemoveEntity(p, e), e) = PoolRemoveEntity(p, e)
          /\ ECSRemoveComponent(ECSRemoveComponent(store, e, t), e, t)
                = ECSRemoveComponent(store, e, t)

\* removeComponent has run on a valid entity, and a valid entity is not a
\* member of a pool that holds components
C13_Witness ==
    /\ ret.op = "removeComponent"
    /\ ret.ok
    /\ \E e \in FacadeHandles, t \in made :
          /\ ECSIsValid(store, e)
          /\ ~Stored(pools, e, t)
          /\ pools[t].components.dense # <<>>

\* C14: after any sequence of insert / emplace / remove / clear, with handles
\* that may share an id and differ in version, size() is the number of
\* entities e for which contains(e) is true.
C14_SizeCountsMembers ==
    SSSize(sset) = Cardinality({e \in SetHandles : SSContains(sset, e)})

\* C15: remove of a member that is not in the last dense slot moves the last
\* entity and its component into the vacated slot, and every other member
\* is still contained and has the value it had.
C15_SwapRemoveKeepsOthers ==
    [][\A e \in WideSetHandles :
          (/\ ret'.op = "remove"
           /\ SSContains(sset, e)
           /\ SSSlot(sset, e) + 1 < Len(sset.dense)
           /\ SetRemove(e)) =>
             /\ sset'.dense[SSSlot(sset, e) + 1] = sset.dense[Len(sset.dense)]
             /\ sset'.components[SSSlot(sset, e) + 1] = sset.components[Len(sset.dense)]
             /\ \A o \in WideSetHandles \ {e} :
                   SSContains(sset, o) =>
                      (SSContains(sset', o) /\ SSGet(sset', o) = SSGet(sset, o))]_vars

\* C16: insert, and addComponent, for an entity that is already present
\* overwrites nothing: sparse, dense (so its order and the membership) and
\* the stored components are what they were, and get(e) gives the value
\* stored at first, which is also what addComponent returns.
C16_InsertKeepsPresent ==
    [][\A e \in FacadeHandles, t \in Types, c \in Values :
          (/\ ret'.op = "addComponent"
           /\ ECSIsValid(store, e)
           /\ Stored(pools, e, t)
           /\ AddComponent(e, t, c)) =>
             /\ SSInsert(pools[t].components, e, c) = pools[t].components
             /\ pools'[t].components = pools[t].components
             /\ SSGet(pools'[t].components, e) = SSGet(pools[t].components, e)
             /\ ret'.out = <<SSGet(pools[t].components, e)>>
             /\ \A r \in ECSGetComponent(Store(em', pools', made'), e, t) :
                   r.out = <<SSGet(pools[t].components, e)>>
             /\ \A u \in Types \ {t} : pools'[u] = pools[u]
             /\ em' = em]_vars

\* addComponent has been called for an entity that had the component: only
\* then is a pool's count above the length of its dense list
C16_Witness ==
    /\ ret.op = "addComponent"
    /\ ret.ok
    /\ \E t \in made : pools[t].componentCount > Len(pools[t].components.dense)

\* C17: when a pool bound to a view holds no entity, each() calls the
\* visitor for no entity, whatever the other bound pools hold.
C17_EmptyPoolYieldsNothing ==
    [][\A types \in ViewLists, entityOnly \in BOOLEAN :
          (/\ ret'.op \in {"each1", "each2"}
           /\ \E k \in 1..Len(types) : pools[types[k]].components.dense = <<>>
           /\ Each(types, entityOnly)) =>
             ret'.out = <<>>]_vars

\* C18: for every entity a view visits, the reference passed to the visitor
\* for each bound pool is the component stored for that entity: the slot the
\* pool's sparse set maps the entity to.
C18_VisitorGetsStoredSlot ==
    [][\A types \in ViewLists :
          (ret'.op \in {"each1", "each2"} /\ Each(types, FALSE)) =>
             LET refs == ViewEachRefs(ECSView(store, types).pools, types)
             IN \A i \in 1..Len(refs), k \in 1..Len(types) :
                   /\ Stored(pools, refs[i].entity, types[k])
                   /\ refs[i].ptr[k] =
                         SlotPtr(SSSlot(pools[types[k]].components, refs[i].entity))]_vars

\* C19: a value written to a component through the visitor of a view, for an
\* entity e, is the value getComponent(e) returns next and the value the next
\* iteration of the view yields for e.
C19_VisitorWriteIsRead ==
    [][\A types \in ViewLists, v \in Values :
          (ret'.op = "eachWrite" /\ EachWrite(types, v)) =>
             \A i \in 1..Len(ret'.out), k \in 1..Len(types) :
                /\ \A r \in ECSGetComponent(Store(em', pools', made'), ret'.out[i], types[k]) :
                      r.err = ErrNone /\ r.out = <<v>>
                /\ LET refs == ViewEachRefs(pools', types)
                   IN \A j \in 1..Len(refs) :
                         Deref(pools'[types[k]], refs[j].ptr[k]) = <<v>>]_vars

\* C20: after replaceComponent(e, v) on a valid entity e, hasComponent(e) is
\* true and getComponent(e) returns v; and it still returns v after a call
\* that adds, gets, removes or destroys another entity.
C20_ReplaceThenGet ==
    [][/\ \A e \in FacadeHandles, t \in Types, v \in Values :
             (/\ ret'.op = "replaceComponent"
              /\ ECSIsValid(store, e)
              /\ ReplaceComponent(e, t, v)) =>
                /\ ECSHasComponent(Store(em', pools', made'), e, t)
                /\ \A r \in ECSGetComponent(Store(em', pools', made'), e, t) :
                      r.err = ErrNone /\ r.out = <<v>>
       /\ \A t \in Types :
             LET e == pools[t].lastEntity
             IN (/\ ret'.op \in {"addComponent", "getComponent",
                                "removeComponent", "destroyEntity"}
                 /\ ret.op = "replaceComponent"
                 /\ ret.err = ErrNone
                 /\ ECSIsValid(store, e)
                 /\ \A r \in ECSGetComponent(store, e, t) : r.out = ret.out
                 /\ \E o \in FacadeHandles \ {e}, u \in Types :
                       \/ ret'.op = "addComponent" /\ \E c \in Values : AddComponent(o, u, c)
                       \/ ret'.op = "getComponent" /\ GetComponent(o, u)
                       \/ ret'.op = "removeComponent" /\ RemoveComponent(o, u)
                       \/ ret'.op = "destroyEntity" /\ DestroyEntity(o)) =>
                   (ECSIsValid(Store(em', pools', made'), e) =>
                      \A r \in ECSGetComponent(Store(em', pools', made'), e, t) :
                         r.out = ret.out)]_vars

\* C21: removeComponent<T>(e) and removeComponents<T...>(e) on a valid e leave
\* e without the named components (no pool of a named type stores e, and
\* hasComponent is false for e and each named type), and change no pool of
\* another type and nothing of the entity manager.
C21_RemoveTouchesNamedOnly ==
    [][ret'.op \in {"removeComponent", "removeComponents"} =>
          \A e \in FacadeHandles, types \in ViewLists :
             (/\ ECSIsValid(store, e)
              /\ \/ Len(types) = 1 /\ RemoveComponent(e, types[1])
                 \/ RemoveComponents(e, types)) =>
                /\ \A k \in 1..Len(types) :
                      /\ ~Stored(pools', e, types[k])
                      /\ ~ECSHasComponent(Store(em', pools', made'), e, types[k])
                /\ \A u \in Types \ Range(types) :
                      /\ pools'[u] = pools[u]
                      /\ ECSHasComponent(Store(em', pools', made'), e, u) = ECSHasComponent(store, e, u)
                /\ em' = em]_vars

\* C22: isValid(Entity::null()) is false in every state the entity manager
\* reaches by create, destroy and clear.
C22_NullIsInvalid ==
    ~EMIsValid(em, Null)

\* a slot of the version table holds the version the null entity carries
C22_Witness ==
    /\ \E i \in 1..Len(em.versions) : em.versions[i] = getVersion(Null)
    /\ ~EMIsValid(em, Null)

\* C23: when the cache of a pool holds an entity e, e is contained in the
\* pool's sparse set and the cached pointer is the slot the sparse set maps e
\* to, so Pool::get(e) gives the component SparseSet::get(e) gives.
C23_CacheIsCurrent ==
    \A t \in Types :
       LET p == pools[t]
       IN p.lastEntity # Null =>
             /\ SSContains(p.components, p.lastEntity)
             /\ p.lastComponent = SlotPtr(SSSlot(p.components, p.lastEntity))
             /\ Deref(p, PoolGetPtr(p, p.lastEntity)) = <<SSGet(p.components, p.lastEntity)>>

\* C24: destroy(e) of a handle that is not valid, by a stale version or by an
\* id outside the version table, changes nothing: versions, validEntities,
\* recycledIds and nextId are what they were.  So a second destroy of the
\* same handle leaves what the first one left.
C24_DestroyInvalidIsNoOp ==
    \A e \in Handles :
       LET once == EMDestroy(em, e)
       IN /\ EMDestroyPasses(em, e) <=> EMIsValid(em, e)
          /\ ~EMIsValid(em, e) => once = em
          /\ EMDestroy(once, e) = once

\* a destroy has been refused while entities are live and ids wait for reuse
C24_Witness ==
    /\ ret.op = "destroy"
    /\ ~ret.ok
    /\ em.validEntities # <<>>
    /\ em.recycledIds # <<>>

\* C25: create() takes the id at the front of the recycle queue whenever the
\* queue is not empty, and advances nextId only when it is empty; an id that
\* a destroy has passed for is issued again only from the queue, never from
\* nextId.  (A slot's version is changed by a passing destroy only, so a
\* version other than 0 tells that the id has been destroyed.)
C25_RecycleBeforeHighWater ==
    [][ret'.op = "create" =>
          /\ em.recycledIds # <<>> =>
                /\ getId(ret'.entity) = Head(em.recycledIds)
                /\ em'.recycledIds = Tail(em.recycledIds)
                /\ em'.nextId = em.nextId
          /\ em.recycledIds = <<>> =>
                /\ getId(ret'.entity) = em.nextId
                /\ em'.nextId = em.nextId + 1
                /\ getVersion(ret'.entity) = 0
                /\ \A i \in 1..Len(em.validEntities) :
                      getId(em.validEntities[i]) # em.nextId]_vars

\* the number of entries of seq equal to x
Occurrences(seq, x) == Cardinality({i \in 1..Len(seq) : seq[i] = x})

\* C26: a destroy(e) that passes the validity check removes exactly one entry,
\* equal to e, from the live list, so size() goes down by one; advances the
\* version of e's slot by one modulo 4 and no other version; and appends e's
\* id once to the recycle queue.
C26_DestroyEffects ==
    [][ret'.op = "destroy" =>
          \A e \in Handles :
             (EMDestroyPasses(em, e) /\ Destroy(e)) =>
                /\ EMSize(em') = EMSize(em) - 1
                /\ Occurrences(em'.validEntities, e) = Occurrences(em.validEntities, e) - 1
                /\ \A o \in Range(em.validEntities) \ {e} :
                      Occurrences(em'.validEntities, o) = Occurrences(em.validEntities, o)
                /\ Len(em'.versions) = Len(em.versions)
                /\ \A i \in 0..(Len(em.versions) - 1) :
                      VersionAt(em', i) = IF i = getId(e)
                                          THEN (VersionAt(em, i) + 1) % (versionMask + 1)
                                          ELSE VersionAt(em, i)
                /\ em'.recycledIds = Append(em.recycledIds, getId(e))
                /\ em'.nextId = em.nextId]_vars

\* C27: the pool each() iterates is a bound pool that stores the fewest
\* components among the bound pools, the first such in the order of the type
\* list; so each() examines as many entities as the least number of
\* components a bound pool stores.
C27_DriverHoldsFewest ==
    [][ret'.op \in {"each1", "each2"} =>
          \A types \in ViewLists, entityOnly \in BOOLEAN :
             Each(types, entityOnly) =>
                LET stored(t) == Len(pools[t].components.dense)
                    driver == ViewFindSmallestPool(pools, types)
                IN /\ \A k \in 1..Len(types) : stored(driver) <= stored(types[k])
                   /\ \A k \in 1..Len(types) :
                         stored(types[k]) = stored(driver) =>
                            \E j \in 1..k : types[j] = driver]_vars

\* C28: after sort(compare) the components are in the order of compare,
\* contains(e) holds for exactly the entities it held for before, and get(e)
\* gives each of them the value it gave before.
C28_SortKeepsPairs ==
    [][ret'.op = "sort" =>
          /\ \A i, j \in 1..Len(sset'.components) :
                i < j => ~Compare(sset'.components[j], sset'.components[i])
          /\ \A e \in SetHandles :
                /\ SSContains(sset', e) = SSContains(sset, e)
                /\ SSContains(sset, e) => SSGet(sset', e) = SSGet(sset, e)]_vars

\* C29: when the set contains the handle (id, v), contains is false for
\* every handle of that id with another version, and a handle contains is
\* true for equals, in id and version, an entry of dense.
C29_StaleHandleNotContained ==
    \A e \in SetHandles :
       SSContains(sset, e) =>
          /\ \A o \in SetHandles :
                (getId(o) = getId(e) /\ getVersion(o) # getVersion(e)) => ~SSContains(sset, o)
          /\ \E i \in 1..Len(sset.dense) :
                getId(sset.dense[i]) = getId(e) /\ getVersion(sset.dense[i]) = getVersion(e)

\* the set contains a handle while dense still has an entry of the same id
\* with another version
C29_Witness ==
    \E e \in SetHandles :
       /\ SSContains(sset, e)
       /\ \E i \in 1..Len(sset.dense) :
             getId(sset.dense[i]) = getId(e) /\ sset.dense[i] # e

\* C30: isValid(e) is true exactly for the entities of the live list; so it
\* is false for a handle whose id create() has never issued and for a handle
\* whose id waits in the recycle queue, whatever its version.
C30_ValidIffLive ==
    \A e \in Handles :
       /\ EMIsValid(em, e) <=> e \in Range(em.validEntities)
       /\ getId(e) >= em.nextId => ~EMIsValid(em, e)
       /\ getId(e) \in Range(em.recycledIds) => ~EMIsValid(em, e)

\* the ids that have been destroyed and not issued again: below the
\* high-water mark and not the id of any live entity
PendingIds(m) ==
    {i \in 0..(m.nextId - 1) :
        \A k \in 1..Len(m.validEntities) : getId(m.validEntities[k]) # i}

\* C31: recycled ids come back first in, first out.  A destroy that takes an
\* entity off the live list puts its id behind every id already waiting;
\* while ids are pending, create() returns the pending id that has waited
\* longest, not a never-used id, and leaves the high-water mark alone.
C31_RecycledIdsAreFifo ==
    [][/\ (ret'.op = "destroy" /\ EMSize(em') < EMSize(em)) =>
             \E e \in Range(em.validEntities) :
                /\ Occurrences(em'.validEntities, e) < Occurrences(em.validEntities, e)
                /\ em'.recycledIds = Append(em.recycledIds, getId(e))
       /\ (ret'.op = "create" /\ PendingIds(em) # {}) =>
             LET IsPending(i) == i \in PendingIds(em)
                 waiting == SelectSeq(em.recycledIds, IsPending)
             IN /\ waiting # <<>>
                /\ getId(ret'.entity) = Head(waiting)
                /\ em'.nextId = em.nextId]_vars

\* C32: Pool::size() is the number of entities the pool's sparse set stores,
\* the length of its dense list, also after an insert for an entity that is
\* already present.
C32_SizeIsDenseLength ==
    \A t \in Types : PoolSize(pools[t]) = Len(pools[t].components.dense)

\* C33: Pool::has(e) is true exactly when the pool's sparse set contains e,
\* for every handle, Entity::null() among them, and in every state of a pool
\* the facade has made, a pool emptied again included.
C33_HasIffContains ==
    \A t \in made :
       \A e \in FacadeHandles :
          PoolHas(pools[t], e) <=> SSContains(pools[t].components, e)

\* C34: after any sequence of insert, emplace, remove, clear and sort the
\* set is consistent: dense and components have the same length, no two
\* entries of dense have the same id, and the sparse entry of the id of
\* dense[k] is k, for every slot k.
C34_SetIsConsistent ==
    /\ Len(sset.dense) = Len(sset.components)
    /\ \A i, j \in 1..Len(sset.dense) :
          i # j => getId(sset.dense[i]) # getId(sset.dense[j])
    /\ \A k \in 1..Len(sset.dense) :
          SparseAt(sset, getId(sset.dense[k])) = EntityRaw(k - 1)

\* C35: the entity createEntity() returns has no components when it is
\* returned: hasComponent<T> is false of it for every component type T,
\* whatever calls came before.
C35_CreatedHasNoComponents ==
    ret.op = "createEntity" =>
       \A t \in Types : ~ECSHasComponent(store, ret.entity, t)

\* C36: after any sequence of facade calls every entity in the dense list of
\* a pool satisfies isValid: no pool keeps a component for a handle that
\* isValid rejects.
C36_PoolsHoldValidOnly ==
    \A t \in Types :
       \A k \in 1..Len(pools[t].components.dense) :
          ECSIsValid(store, pools[t].components.dense[k])

\* an entity that had a component has been destroyed, and the pool that held
\* it still holds another entity's component
C36_Witness ==
    /\ ret.op = "destroyEntity"
    /\ ret.ok
    /\ ret.out # <<>>

====
